---- MODULE Spec2Model ----
(***************************************************************************)
(* A model of the offline-first document store and its synchronisation     *)
(* engine: the IndexedDB wrapper (services/db.ts), the controller          *)
(* (App.tsx: handleSave, handleEdit, processSyncBatch, handleSync,         *)
(* handleRetryFailed) and the sync endpoint (backend/server.js).           *)
(***************************************************************************)
EXTENDS Integers, Sequences, FiniteSets, TLC

\* ------------------------------------------------------------------ bounds
MaxDocs == 2        \* master ids that generateUUID can hand out
MaxImages == 2      \* images attached to one document
MaxSaves == 2       \* calls of handleSave (each reads Date.now() once)
MaxFetches == 3     \* upload requests sent by processSyncBatch
MaxLimit == 2       \* page sizes passed to getDocuments
MaxPage == 4        \* page numbers passed to getDocuments

ITEMS_PER_PAGE == 10

Ids == 1..MaxDocs
NoId == 0
Names == {"n1", "n2"}
ImageData == {"data:image/jpeg;x", "data:image/png;y"}
NoMaster == [id |-> NoId, name |-> "", createdAt |-> 0, syncStatus |-> "none"]

VARIABLES
  masters,        \* object store 'masters' (keyPath id): committed records
  details,        \* object store 'details' (keyPath id): committed records
  tx,             \* the running readwrite transaction and its uncommitted writes
  clock,          \* Date.now()
  editingId,      \* App state editingId
  isProcessing,   \* App state isProcessing
  docList,        \* App state docList (id and syncStatus of each listed card)
  toast,          \* the message showToast is called with by the step just taken
  isSyncing,      \* App state isSyncing
  syncStatus,     \* App state syncStatus: <<>> is '', <<i, n>> is 'Syncing i/n'
  syncPc,         \* where handleSync / handleRetryFailed / processSyncBatch stands
  batchKind,      \* "sync" | "retry" | "none"
  docsToSync,     \* the candidate list of the running batch
  idx,            \* loop index i (1-based) of processSyncBatch
  successCount,
  failCount,
  acked,          \* history: the batch's candidates whose upload got response.ok
  written,        \* history: indices of the batch whose markAsSynced completed
  everSynced,     \* history: ids whose stored syncStatus has been 'synced'
  fetchCount,     \* upload requests sent so far
  reqs,           \* requests the sync endpoint is handling or has just answered
  remote,         \* committed rows of the remote master table
  responses,      \* every success response sent: its transactionId and record id
  connections,    \* the endpoint's open database connections, by request number
  qres            \* what a caller of the store holds: the result of its last query,
                  \* or the calls it has made that have not started yet

storeVars == <<masters, details, tx>>
uiVars == <<clock, editingId, isProcessing, docList>>
syncVars == <<isSyncing, syncStatus, syncPc, batchKind, docsToSync, idx, successCount,
             failCount, acked, written, everSynced>>
serverVars == <<fetchCount, reqs, remote, responses, connections>>
vars == <<masters, details, tx, clock, editingId, isProcessing, docList,
          toast, isSyncing, syncStatus, syncPc, batchKind, docsToSync, idx,
          successCount, failCount, acked, written, everSynced, fetchCount, reqs,
          remote, responses, connections, qres>>

\* ------------------------------------------------------------- sequences
Min(a, b) == IF a < b THEN a ELSE b

Range(s) == {s[i] : i \in DOMAIN s}

\* The records of S in ascending order of key[r] (keys are distinct in S).
RECURSIVE SortedSeq(_, _)
SortedSeq(S, key) ==
  IF S = {} THEN <<>>
  ELSE LET m == CHOOSE r \in S : \A o \in S : key[r] <= key[o]
       IN  <<m>> \o SortedSeq(S \ {m}, key)

Reverse(s) == [i \in 1..Len(s) |-> s[Len(s) + 1 - i]]

\* ------------------------------------------------------- IndexedDB stores
\* objectStore.put on a store with keyPath 'id': insert or replace by key.
Put(S, r) == {x \in S : x.id # r.id} \cup {r}

RECURSIVE PutAll(_, _)
PutAll(S, rs) ==
  IF rs = <<>> THEN S ELSE PutAll(Put(S, Head(rs)), Tail(rs))

DeleteKeys(S, keys) == {x \in S : x.id \notin keys}

\* The primary key of every record of a store (keyPath 'id').
PrimaryKey(S) == [r \in S |-> r.id]

\* index('masterId').getAll(masterId): the matching records in primary-key order.
IndexGetAll(D, masterId) ==
  SortedSeq({d \in D : d.masterId = masterId}, PrimaryKey(D))

\* Faulty variant: getAllKeys with no key range returns every detail's key.
AllKeys(D, masterId) == {d.id : d \in D}

\* index('masterId').getAllKeys(masterId)
IndexGetAllKeys(D, masterId) == {d.id : d \in {x \in D : x.masterId = masterId}}

\* index('syncStatus').getAll(status): the matching records in primary-key order.
StatusGetAll(M, status) ==
  SortedSeq({m \in M : m.syncStatus = status}, PrimaryKey(M))

\* Array.prototype.sort((a, b) => a.sequence - b.sequence): a stable insertion sort.
RECURSIVE InsertBySequence(_, _)
InsertBySequence(s, d) ==
  IF s = <<>> THEN <<d>>
  ELSE IF s[Len(s)].sequence <= d.sequence THEN Append(s, d)
  ELSE Append(InsertBySequence(SubSeq(s, 1, Len(s) - 1), d), s[Len(s)])

RECURSIVE SortFrom(_, _)
SortFrom(done, rest) ==
  IF rest = <<>> THEN done
  ELSE SortFrom(InsertBySequence(done, Head(rest)), Tail(rest))

\* Faulty variant: the index order returned as it is.
Unsorted(s) == s

SortBySequence(s) == SortFrom(<<>>, s)

getDocumentDetails(D, masterId) == SortBySequence(IndexGetAll(D, masterId))

getPendingDocuments(M) == StatusGetAll(M, "pending")

getFailedDocuments(M) == StatusGetAll(M, "failed")

\* The createdAt index walked with direction 'prev': descending createdAt,
\* entries with equal createdAt in descending primary-key order.
CreatedAtIndexKey(M) == [m \in M |-> m.createdAt * (MaxDocs + 2) + m.id]

CursorPrev(M) == Reverse(SortedSeq(M, CreatedAtIndexKey(M)))

\* Faulty variant: skips the requested page as well.
WrongAdvanceBy(page, limit) == page * limit

AdvanceBy(page, limit) == (page - 1) * limit

\* cursorRequest.onsuccess of getDocuments, called once per cursor position:
\* pos is the cursor (0-based; at or past the end it is null).
RECURSIVE CursorWalk(_, _, _, _, _, _)
CursorWalk(order, pos, advanced, docs, page, limit) ==
  IF pos >= Len(order) THEN docs
  ELSE IF page > 1 /\ ~advanced /\ AdvanceBy(page, limit) > 0
       THEN CursorWalk(order, pos + AdvanceBy(page, limit), TRUE, docs, page, limit)
  ELSE LET pushed == Append(docs, order[pos + 1])
       IN  IF Len(pushed) < limit
           THEN CursorWalk(order, pos + 1, TRUE, pushed, page, limit)
           ELSE pushed

getDocuments(M, page, limit) ==
  [docs |-> CursorWalk(CursorPrev(M), 0, FALSE, <<>>, page, limit),
   total |-> Cardinality(M)]

\* ------------------------------------------------------------ transactions
\* Every readwrite transaction of db.ts spans the 'masters' store, so IndexedDB
\* runs them one at a time; tx is the running one.  Its requests act on wm and wd;
\* 'complete' makes wm and wd the stores, an abort discards them.
NoTx == [op |-> "none", stage |-> "none", master |-> NoMaster, dets |-> <<>>,
         wm |-> {}, wd |-> {}, keys |-> {}]

BeginTx(op, stage, master, dets) ==
  [op |-> op, stage |-> stage, master |-> master, dets |-> dets,
   wm |-> masters, wd |-> details, keys |-> {}]

Toast(type) == [type |-> type, success |-> 0, failed |-> 0]

\* img.url.match(/:(.*?);/)?.[1] || 'image/png'
MimeOf(url) ==
  IF url = "data:image/jpeg;x" THEN "image/jpeg"
  ELSE IF url = "data:image/png;y" THEN "image/png"
  ELSE "image/png"

\* generateUUID for the details of one save: distinct, never used before, and in
\* no fixed order relative to the images' positions (perm).
DetailId(saveNo, k) == saveNo * (MaxImages + 1) + k

Perms(n) == {f \in [1..n -> 1..n] : \A i, j \in 1..n : f[i] = f[j] => i = j}

ImageSeqs(dom, maxLen) == UNION {[1..n -> dom] : n \in 1..maxLen}

\* Faulty variant: the sequence numbers leave gaps.
BuildDetailsWithGaps(masterId, imgs, perm, saveNo) ==
  [k \in 1..Len(imgs) |->
     [id |-> DetailId(saveNo, perm[k]), masterId |-> masterId, sequence |-> 2 * k,
      imageData |-> imgs[k], mimeType |-> MimeOf(imgs[k])]]

\* The DocDetail[] that handleSave builds from the attached images.
BuildDetails(masterId, imgs, perm, saveNo) ==
  [k \in 1..Len(imgs) |->
     [id |-> DetailId(saveNo, perm[k]), masterId |-> masterId, sequence |-> k,
      imageData |-> imgs[k], mimeType |-> MimeOf(imgs[k])]]

\* ------------------------------------------------------------- controller
\* loadDocs(1): what the list shows of getDocuments(1, ITEMS_PER_PAGE).docs
ListedDocs(M) ==
  LET docs == getDocuments(M, 1, ITEMS_PER_PAGE).docs
  IN  [i \in 1..Len(docs) |-> [id |-> docs[i].id, syncStatus |-> docs[i].syncStatus]]

\* Faulty variant: an edit is saved under a new id.
HandleSaveFreshId(names, imageSeqs) ==
  /\ ~isProcessing
  /\ tx = NoTx
  /\ clock < MaxSaves
  /\ \E name \in names, imgs \in imageSeqs, newId \in Ids :
       \E perm \in Perms(Len(imgs)) :
         LET master == [id |-> newId, name |-> name, createdAt |-> clock + 1,
                        syncStatus |-> "pending"]
             dets == BuildDetails(newId, imgs, perm, clock + 1)
         IN  /\ \A m \in masters : m.id # newId
             /\ tx' = BeginTx(IF editingId # NoId THEN "update" ELSE "save",
                              "putMaster", master, dets)
  /\ clock' = clock + 1
  /\ isProcessing' = TRUE
  /\ toast' = Toast("none")
  /\ UNCHANGED <<masters, details, editingId, docList, qres>>
  /\ UNCHANGED <<syncVars, serverVars>>

\* handleSave with a valid form: builds the master and its details and starts
\* saveDocument (editingId null: a new UUID, newId) or updateDocument (editingId).
HandleSave(names, imageSeqs) ==
  /\ ~isProcessing
  /\ tx = NoTx
  /\ clock < MaxSaves
  /\ \E name \in names, imgs \in imageSeqs, newId \in Ids :
       \E perm \in Perms(Len(imgs)) :
         LET masterId == IF editingId # NoId THEN editingId ELSE newId
             master == [id |-> masterId, name |-> name, createdAt |-> clock + 1,
                        syncStatus |-> "pending"]
             dets == BuildDetails(masterId, imgs, perm, clock + 1)
         IN  /\ editingId = NoId => (\A m \in masters : m.id # newId)
             /\ editingId # NoId => newId = editingId
             /\ tx' = BeginTx(IF editingId # NoId THEN "update" ELSE "save",
                              "putMaster", master, dets)
  /\ clock' = clock + 1
  /\ isProcessing' = TRUE
  /\ toast' = Toast("none")
  /\ UNCHANGED <<masters, details, editingId, docList, qres>>
  /\ UNCHANGED <<syncVars, serverVars>>

\* Faulty variant: every form passes.
AlwaysValid(name, phone, refId, imgs) == TRUE

\* The negation of handleSave's first condition: !formData.name ||
\* !formData.phone || !formData.refId || images.length === 0
FormValid(name, phone, refId, imgs) ==
  /\ name # ""
  /\ phone # ""
  /\ refId # ""
  /\ Len(imgs) # 0

\* handleSave on the form as the user left it (the Save button is disabled
\* while isProcessing): an incomplete form gets the warning toast and the
\* handler returns, a complete one goes on as HandleSave.
HandleSaveForm(name, phone, refId, imgs) ==
  IF FormValid(name, phone, refId, imgs)
  THEN HandleSave({name}, {imgs})
  ELSE /\ ~isProcessing
       /\ toast' = Toast("warning")
       /\ UNCHANGED <<storeVars, uiVars, syncVars, serverVars, qres>>

\* What the form's fields can hold.
FormNames == Names \cup {""}

FormPhones == {"", "01700000000"}

FormRefIds == {"", "7"}

FormImages == ImageSeqs(ImageData, MaxImages) \cup {<<>>}

SubmitForm ==
  \E name \in FormNames, phone \in FormPhones, refId \in FormRefIds,
     imgs \in FormImages :
    HandleSaveForm(name, phone, refId, imgs)

\* Faulty variant: the master put is visible before the transaction completes.
SavePutMasterAutoCommit ==
  /\ tx.op = "save" /\ tx.stage = "putMaster"
  /\ tx' = [tx EXCEPT !.wm = Put(tx.wm, tx.master), !.stage = "putDetails"]
  /\ masters' = Put(masters, tx.master)
  /\ toast' = Toast("none")
  /\ UNCHANGED <<details, uiVars, syncVars, serverVars, qres>>

\* saveDocument: masterStore.put(master)
SavePutMaster ==
  /\ tx.op = "save" /\ tx.stage = "putMaster"
  /\ tx' = [tx EXCEPT !.wm = Put(tx.wm, tx.master), !.stage = "putDetails"]
  /\ toast' = Toast("none")
  /\ UNCHANGED <<masters, details, uiVars, syncVars, serverVars, qres>>

\* saveDocument: details.forEach((detail) => detailStore.put(detail))
SavePutDetails ==
  /\ tx.op = "save" /\ tx.stage = "putDetails"
  /\ tx' = [tx EXCEPT !.wd = PutAll(tx.wd, tx.dets), !.stage = "commit"]
  /\ toast' = Toast("none")
  /\ UNCHANGED <<masters, details, uiVars, syncVars, serverVars, qres>>

\* updateDocument: masterStore.put(master)
UpdatePutMaster ==
  /\ tx.op = "update" /\ tx.stage = "putMaster"
  /\ tx' = [tx EXCEPT !.wm = Put(tx.wm, tx.master), !.stage = "getAllKeys"]
  /\ toast' = Toast("none")
  /\ UNCHANGED <<masters, details, uiVars, syncVars, serverVars, qres>>

\* updateDocument: index.getAllKeys(master.id) succeeds
UpdateGetAllKeys ==
  /\ tx.op = "update" /\ tx.stage = "getAllKeys"
  /\ tx' = [tx EXCEPT !.keys = IndexGetAllKeys(tx.wd, tx.master.id),
                      !.stage = "replace"]
  /\ toast' = Toast("none")
  /\ UNCHANGED <<masters, details, uiVars, syncVars, serverVars, qres>>

\* Faulty variant: the new details are put without deleting the old ones.
MergeDetails(D, keys, dets) == PutAll(D, dets)

\* request.onsuccess of updateDocument: delete every key found, put the new details
ReplaceDetails(D, keys, dets) == PutAll(DeleteKeys(D, keys), dets)

UpdateReplaceDetails ==
  /\ tx.op = "update" /\ tx.stage = "replace"
  /\ tx' = [tx EXCEPT !.wd = ReplaceDetails(tx.wd, tx.keys, tx.dets),
                      !.stage = "commit"]
  /\ toast' = Toast("none")
  /\ UNCHANGED <<masters, details, uiVars, syncVars, serverVars, qres>>

\* transaction.oncomplete of saveDocument, then handleSave's continuation:
\* the form is reset and, the list being on page 1, loadDocs(1) reloads it.
SaveComplete ==
  /\ tx.op = "save" /\ tx.stage = "commit"
  /\ masters' = tx.wm
  /\ details' = tx.wd
  /\ tx' = NoTx
  /\ isProcessing' = FALSE
  /\ docList' = ListedDocs(tx.wm)
  /\ toast' = Toast("none")
  /\ UNCHANGED <<clock, editingId, syncVars, serverVars, qres>>

\* transaction.oncomplete of updateDocument, then handleSave's continuation
UpdateComplete ==
  /\ tx.op = "update" /\ tx.stage = "commit"
  /\ masters' = tx.wm
  /\ details' = tx.wd
  /\ tx' = NoTx
  /\ editingId' = NoId
  /\ isProcessing' = FALSE
  /\ docList' = ListedDocs(tx.wm)
  /\ toast' = Toast("updated")
  /\ UNCHANGED <<clock, syncVars, serverVars, qres>>

\* Faulty variant: the failed transaction's writes stay in the stores.
SaveErrorKeepsWrites ==
  /\ tx.op \in {"save", "update"}
  /\ tx.stage \in {"putMaster", "putDetails", "getAllKeys", "replace"}
  /\ masters' = tx.wm
  /\ details' = tx.wd
  /\ tx' = NoTx
  /\ isProcessing' = FALSE
  /\ toast' = Toast("saveError")
  /\ UNCHANGED <<clock, editingId, docList, syncVars, serverVars, qres>>

\* A request of saveDocument / updateDocument fails: the transaction aborts,
\* transaction.onerror rejects and handleSave's catch block reports it.
SaveError ==
  /\ tx.op \in {"save", "update"}
  /\ tx.stage \in {"putMaster", "putDetails", "getAllKeys", "replace"}
  /\ tx' = NoTx
  /\ isProcessing' = FALSE
  /\ toast' = Toast("saveError")
  /\ UNCHANGED <<masters, details, clock, editingId, docList>>
  /\ UNCHANGED <<syncVars, serverVars, qres>>

\* The Edit button of a card (DocumentCard renders it only when the listed
\* doc.syncStatus is not 'synced') calls handleEdit(doc): the details are read
\* and editingId is set, or the read fails and is reported.  A read runs when no
\* readwrite transaction is running (IndexedDB orders it after them).
HandleEdit ==
  /\ tx = NoTx
  /\ \E i \in 1..Len(docList) :
       /\ docList[i].syncStatus # "synced"
       /\ \/ /\ editingId' = docList[i].id
             /\ toast' = Toast("none")
          \/ /\ editingId' = editingId
             /\ toast' = Toast("editError")
  /\ isProcessing' = FALSE
  /\ UNCHANGED <<storeVars, clock, docList, syncVars, serverVars, qres>>

\* ------------------------------------------------------------ sync engine
\* Faulty variant: no finally block; the flag and the text stay as they are.
IdleSyncNoFinally ==
  /\ isSyncing' = isSyncing
  /\ syncStatus' = syncStatus
  /\ syncPc' = "idle"
  /\ batchKind' = "none"
  /\ docsToSync' = <<>>
  /\ idx' = 0
  /\ successCount' = 0
  /\ failCount' = 0
  /\ acked' = {}
  /\ written' = {}

\* The finally block of handleSync / handleRetryFailed, and the batch's locals gone.
IdleSync ==
  /\ isSyncing' = FALSE
  /\ syncStatus' = <<>>
  /\ syncPc' = "idle"
  /\ batchKind' = "none"
  /\ docsToSync' = <<>>
  /\ idx' = 0
  /\ successCount' = 0
  /\ failCount' = 0
  /\ acked' = {}
  /\ written' = {}

\* Faulty variant: an empty candidate list is processed as a batch and summed up.
HandleSyncNoEmptyCheck(kind) ==
  /\ ~isSyncing
  /\ tx = NoTx
  /\ LET docs == IF kind = "sync" THEN getPendingDocuments(masters)
                 ELSE getFailedDocuments(masters)
     IN  \/ /\ docs = <<>>
            /\ toast' = [type |-> "summary", success |-> 0, failed |-> 0]
            /\ IdleSync
         \/ /\ docs # <<>>
            /\ isSyncing' = TRUE
            /\ syncStatus' = <<1, Len(docs)>>
            /\ syncPc' = "details"
            /\ batchKind' = kind
            /\ docsToSync' = docs
            /\ idx' = 1
            /\ successCount' = 0
            /\ failCount' = 0
            /\ acked' = {}
            /\ written' = {}
            /\ toast' = Toast("none")
         \/ /\ toast' = Toast("syncError")
            /\ IdleSync
  /\ docList' = IF syncPc = "reload" THEN ListedDocs(masters) ELSE docList
  /\ UNCHANGED <<storeVars, clock, editingId, isProcessing, everSynced, serverVars,
                 qres>>

\* Faulty variant: the buttons stay enabled while a batch runs.
HandleSyncButtonsEnabled(kind) ==
  /\ tx = NoTx
  /\ LET docs == IF kind = "sync" THEN getPendingDocuments(masters)
                 ELSE getFailedDocuments(masters)
     IN  \/ /\ docs = <<>>
            /\ toast' = Toast("nothing")
            /\ IdleSync
         \/ /\ docs # <<>>
            /\ isSyncing' = TRUE
            /\ syncStatus' = <<1, Len(docs)>>
            /\ syncPc' = "details"
            /\ batchKind' = kind
            /\ docsToSync' = docs
            /\ idx' = 1
            /\ successCount' = 0
            /\ failCount' = 0
            /\ acked' = {}
            /\ written' = {}
            /\ toast' = Toast("none")
         \/ /\ toast' = Toast("syncError")
            /\ IdleSync
  /\ docList' = IF syncPc = "reload" THEN ListedDocs(masters) ELSE docList
  /\ UNCHANGED <<storeVars, clock, editingId, isProcessing, everSynced, serverVars,
                 qres>>

\* handleSync (kind "sync") and handleRetryFailed (kind "retry"): the buttons are
\* disabled while isSyncing.  The candidate list is read once; an empty list is
\* reported and ends the run, a failed read is caught and reported.  A read of
\* loadDocs still pending from the last batch was issued first and precedes it.
HandleSyncOrRetry(kind) ==
  /\ ~isSyncing
  /\ tx = NoTx
  /\ LET docs == IF kind = "sync" THEN getPendingDocuments(masters)
                 ELSE getFailedDocuments(masters)
     IN  \/ /\ docs = <<>>
            /\ toast' = Toast("nothing")
            /\ IdleSync
         \/ /\ docs # <<>>
            /\ isSyncing' = TRUE
            /\ syncStatus' = <<1, Len(docs)>>
            /\ syncPc' = "details"
            /\ batchKind' = kind
            /\ docsToSync' = docs
            /\ idx' = 1
            /\ successCount' = 0
            /\ failCount' = 0
            /\ acked' = {}
            /\ written' = {}
            /\ toast' = Toast("none")
         \/ /\ toast' = Toast("syncError")
            /\ IdleSync
  /\ docList' = IF syncPc = "reload" THEN ListedDocs(masters) ELSE docList
  /\ UNCHANGED <<storeVars, clock, editingId, isProcessing, everSynced, serverVars,
                 qres>>

HandleSync == HandleSyncOrRetry("sync")

HandleRetryFailed == HandleSyncOrRetry("retry")

\* Faulty variant: the attachments are listed last detail first.
PayloadReversed(doc, dets) ==
  [transactionId |-> doc.id,
   metadata |-> [fullName |-> doc.name, capturedAt |-> doc.createdAt],
   attachments |-> [k \in 1..Len(dets) |->
                     [sequence |-> dets[Len(dets) + 1 - k].sequence,
                      mimeType |-> dets[Len(dets) + 1 - k].mimeType,
                      data |-> dets[Len(dets) + 1 - k].imageData]]]

\* The payload of processSyncBatch: transactionId, metadata (from the candidate
\* as listed) and one attachment per detail read.
Attachment(d) == [sequence |-> d.sequence, mimeType |-> d.mimeType, data |-> d.imageData]

Payload(doc, dets) ==
  [transactionId |-> doc.id,
   metadata |-> [fullName |-> doc.name, capturedAt |-> doc.createdAt],
   attachments |-> [k \in 1..Len(dets) |-> Attachment(dets[k])]]

\* A request as the endpoint holds it: n numbers the fetch calls, and the master
\* row it inserts gets the id n (RETURNING PATIENT_ID: a fresh id per insert).
NewRequest(n, payload) ==
  [n |-> n, tid |-> payload.transactionId, metadata |-> payload.metadata,
   atts |-> payload.attachments, stage |-> "check", natts |-> 0,
   status |-> 0, existed |-> FALSE]

\* The request the running batch awaits.
CurrentReq == {r \in reqs : r.n = fetchCount}

\* processSyncBatch, candidate idx: getDocumentDetails, then fetch(syncUrl, payload);
\* a rejected read goes to the catch block.
BatchReadAndSend ==
  /\ syncPc = "details"
  /\ tx = NoTx
  /\ \/ /\ fetchCount < MaxFetches
        /\ fetchCount' = fetchCount + 1
        /\ reqs' = reqs \cup {NewRequest(fetchCount + 1, Payload(docsToSync[idx],
                                getDocumentDetails(details, docsToSync[idx].id)))}
        /\ syncPc' = "upload"
     \/ /\ UNCHANGED <<fetchCount, reqs>>
        /\ syncPc' = "markFailed"
  /\ toast' = Toast("none")
  /\ UNCHANGED <<storeVars, uiVars, isSyncing, syncStatus, batchKind, docsToSync, idx,
                 successCount, failCount, acked, written, everSynced, remote,
                 responses, connections, qres>>

\* The awaited fetch resolves: response.ok continues to markAsSynced, any other
\* status throws into the catch block.
FetchResponse ==
  /\ syncPc = "upload"
  /\ \E r \in CurrentReq :
       /\ r.stage = "done"
       /\ reqs' = reqs \ {r}
       /\ IF r.status = 200
          THEN /\ syncPc' = "markSynced"
               /\ acked' = acked \cup {[i |-> idx, existed |-> r.existed]}
          ELSE /\ syncPc' = "markFailed"
               /\ acked' = acked
  /\ toast' = Toast("none")
  /\ UNCHANGED <<storeVars, uiVars, isSyncing, syncStatus, batchKind, docsToSync, idx,
                 successCount, failCount, written, everSynced, fetchCount, remote,
                 responses, connections, qres>>

\* The awaited fetch rejects (transport failure), whatever the server has done
\* or will do with the request; an answer already sent is lost.
FetchReject ==
  /\ syncPc = "upload"
  /\ syncPc' = "markFailed"
  /\ reqs' = {r \in reqs : r.stage # "done"}
  /\ toast' = Toast("none")
  /\ UNCHANGED <<storeVars, uiVars, isSyncing, syncStatus, batchKind, docsToSync, idx,
                 successCount, failCount, acked, written, everSynced, fetchCount,
                 remote, responses, connections, qres>>

\* The awaited fetch resolves with a 2xx status and a body that is not the
\* endpoint's acknowledgment (an intermediary answered, e.g. a proxy's or a
\* dev server's HTML page): response.ok is true and the body is never read, so
\* the batch continues to markAsSynced.  Nothing acknowledged the upload.
FetchMalformed ==
  /\ syncPc = "upload"
  /\ syncPc' = "markSynced"
  /\ reqs' = {r \in reqs : r.stage # "done"}
  /\ toast' = Toast("none")
  /\ UNCHANGED <<storeVars, uiVars, isSyncing, syncStatus, batchKind, docsToSync, idx,
                 successCount, failCount, acked, written, everSynced, fetchCount,
                 remote, responses, connections, qres>>

\* Faulty variant: the status write is started and not awaited; the loop goes
\* on to the next candidate at once.
BeginMarkNoAwait ==
  /\ syncPc \in {"markSynced", "markFailed"}
  /\ tx = NoTx
  /\ tx' = BeginTx(syncPc, "get", [NoMaster EXCEPT !.id = docsToSync[idx].id], <<>>)
  /\ IF idx < Len(docsToSync)
     THEN idx' = idx + 1 /\ syncPc' = "details"
     ELSE idx' = idx /\ syncPc' = IF syncPc = "markSynced" THEN "markSyncedTx"
                                  ELSE "markFailedTx"
  /\ toast' = Toast("none")
  /\ UNCHANGED <<masters, details, uiVars, isSyncing, syncStatus, batchKind, docsToSync,
                 successCount, failCount, acked, written, everSynced,
                 serverVars, qres>>

\* markAsSynced / markAsFailed open their transaction and issue store.get(masterId)
BeginMark ==
  /\ syncPc \in {"markSynced", "markFailed"}
  /\ tx = NoTx
  /\ tx' = BeginTx(syncPc, "get", [NoMaster EXCEPT !.id = docsToSync[idx].id], <<>>)
  /\ syncPc' = IF syncPc = "markSynced" THEN "markSyncedTx" ELSE "markFailedTx"
  /\ toast' = Toast("none")
  /\ UNCHANGED <<masters, details, uiVars, isSyncing, syncStatus, batchKind, docsToSync,
                 idx, successCount, failCount, acked, written, everSynced,
                 serverVars, qres>>

\* Faulty variant: a missing record is created by the mark.
MarkGetUpsert ==
  /\ tx.op \in {"markSynced", "markFailed"} /\ tx.stage = "get"
  /\ LET found == {m \in tx.wm : m.id = tx.master.id}
     IN  IF found = {}
         THEN tx' = [tx EXCEPT !.stage = "put"]
         ELSE tx' = [tx EXCEPT !.master = CHOOSE m \in found : TRUE, !.stage = "put"]
  /\ toast' = Toast("none")
  /\ UNCHANGED <<masters, details, uiVars, syncVars, serverVars, qres>>

\* req.onsuccess: data = req.result; without data nothing is written
MarkGet ==
  /\ tx.op \in {"markSynced", "markFailed"} /\ tx.stage = "get"
  /\ LET found == {m \in tx.wm : m.id = tx.master.id}
     IN  IF found = {}
         THEN tx' = [tx EXCEPT !.stage = "commit"]
         ELSE tx' = [tx EXCEPT !.master = CHOOSE m \in found : TRUE, !.stage = "put"]
  /\ toast' = Toast("none")
  /\ UNCHANGED <<masters, details, uiVars, syncVars, serverVars, qres>>

\* Faulty variant: the mark puts the candidate as the batch listed it, not the
\* record it has just read.
MarkPutSnapshot ==
  /\ tx.op \in {"markSynced", "markFailed"} /\ tx.stage = "put"
  /\ LET status == IF tx.op = "markSynced" THEN "synced" ELSE "failed"
     IN  tx' = [tx EXCEPT !.wm = Put(tx.wm, [docsToSync[idx] EXCEPT !.syncStatus = status]),
                          !.stage = "commit"]
  /\ toast' = Toast("none")
  /\ UNCHANGED <<masters, details, uiVars, syncVars, serverVars, qres>>

\* data.syncStatus = 'synced' | 'failed'; store.put(data)
MarkPut ==
  /\ tx.op \in {"markSynced", "markFailed"} /\ tx.stage = "put"
  /\ LET status == IF tx.op = "markSynced" THEN "synced" ELSE "failed"
     IN  tx' = [tx EXCEPT !.wm = Put(tx.wm, [tx.master EXCEPT !.syncStatus = status]),
                          !.stage = "commit"]
  /\ toast' = Toast("none")
  /\ UNCHANGED <<masters, details, uiVars, syncVars, serverVars, qres>>

\* The loop's next iteration, or after the last candidate the summary toast,
\* loadDocs(page) called without await (syncPc "reload": its read is pending)
\* and setIsSyncing(false) of the finally block.
NextCandidate(sc, fc) ==
  /\ successCount' = sc
  /\ failCount' = fc
  /\ IF idx < Len(docsToSync)
     THEN /\ idx' = idx + 1
          /\ syncPc' = "details"
          /\ toast' = Toast("none")
          /\ isSyncing' = isSyncing
          /\ syncStatus' = <<idx + 1, Len(docsToSync)>>
     ELSE /\ idx' = idx
          /\ syncPc' = "reload"
          /\ toast' = [type |-> "summary", success |-> sc, failed |-> fc]
          /\ isSyncing' = FALSE
          /\ syncStatus' = <<>>
  /\ UNCHANGED <<batchKind, docsToSync, acked>>

\* Faulty variant: a completed markAsSynced is not counted.
SuccessNotCounted == successCount

SuccessPlusOne == successCount + 1

\* tx.oncomplete of markAsSynced: successCount++
MarkSyncedComplete ==
  /\ tx.op = "markSynced" /\ tx.stage = "commit"
  /\ masters' = tx.wm
  /\ tx' = NoTx
  /\ written' = written \cup {idx}
  /\ everSynced' = everSynced \cup {m.id : m \in {x \in tx.wm : x.syncStatus = "synced"}}
  /\ NextCandidate(SuccessPlusOne, failCount)
  /\ UNCHANGED <<details, uiVars, serverVars, qres>>

\* tx.onerror of markAsSynced: the rejection is caught, markAsFailed follows
MarkSyncedError ==
  /\ tx.op = "markSynced" /\ tx.stage \in {"get", "put"}
  /\ tx' = NoTx
  /\ syncPc' = "markFailed"
  /\ toast' = Toast("none")
  /\ UNCHANGED <<masters, details, uiVars, isSyncing, syncStatus, batchKind, docsToSync,
                 idx, successCount, failCount, acked, written, everSynced,
                 serverVars, qres>>

\* tx.oncomplete of markAsFailed: failCount++
MarkFailedComplete ==
  /\ tx.op = "markFailed" /\ tx.stage = "commit"
  /\ masters' = tx.wm
  /\ tx' = NoTx
  /\ NextCandidate(successCount, failCount + 1)
  /\ UNCHANGED <<details, uiVars, written, everSynced, serverVars, qres>>

\* tx.onerror of markAsFailed inside the catch block: the rejection leaves
\* processSyncBatch and is caught and reported by handleSync / handleRetryFailed.
MarkFailedError ==
  /\ tx.op = "markFailed" /\ tx.stage \in {"get", "put"}
  /\ tx' = NoTx
  /\ toast' = Toast("syncError")
  /\ IdleSync
  /\ UNCHANGED <<masters, details, uiVars, everSynced, serverVars, qres>>

\* The read of the loadDocs(page) that the finished batch called: the list is
\* reloaded, and the batch's locals are gone.
BatchReload ==
  /\ syncPc = "reload"
  /\ tx = NoTx
  /\ docList' = ListedDocs(masters)
  /\ toast' = Toast("none")
  /\ IdleSync
  /\ UNCHANGED <<storeVars, clock, editingId, isProcessing, everSynced, serverVars,
                 qres>>

\* ---------------------------------------------------------- sync endpoint
\* Each request runs on its own connection; its inserts are visible to others
\* only after connection.commit().
RowsOf(tid) == {row \in remote : row.tid = tid}

\* res.json / res.status(..).json: the answer waits in reqs for the client's
\* fetch; when the client has given up on this request it is lost.
Answer(r, status, existed) ==
  IF syncPc = "upload" /\ r.n = fetchCount
  THEN (reqs \ {r}) \cup
         {[r EXCEPT !.stage = "done", !.status = status, !.existed = existed]}
  ELSE reqs \ {r}

\* connection = getConnection(); checkResult = SELECT PATIENT_ID ... WHERE
\* FRONTEND_UUID = :uuid; with a row, the answer is success with
\* oracleRecordId = checkResult.rows[0][0] and the finally block closes the
\* connection.
ServerCheck(r) ==
  /\ r \in reqs /\ r.stage = "check"
  /\ IF RowsOf(r.tid) # {}
     THEN \E row \in RowsOf(r.tid) :
            /\ reqs' = Answer(r, 200, TRUE)
            /\ responses' = responses \cup {[tid |-> r.tid, id |-> row.id]}
            /\ connections' = connections \ {r.n}
     ELSE /\ reqs' = (reqs \ {r}) \cup {[r EXCEPT !.stage = "master"]}
          /\ responses' = responses
          /\ connections' = connections \cup {r.n}
  /\ toast' = Toast("none")
  /\ UNCHANGED <<storeVars, uiVars, syncVars, fetchCount, remote, qres>>

\* INSERT INTO PATIENT_INFO ... RETURNING PATIENT_ID INTO :id
ServerInsertMaster(r) ==
  /\ r \in reqs /\ r.stage = "master"
  /\ reqs' = (reqs \ {r}) \cup
               {[r EXCEPT !.stage = IF r.atts = <<>> THEN "commit" ELSE "atts"]}
  /\ toast' = Toast("none")
  /\ UNCHANGED <<storeVars, uiVars, syncVars, fetchCount, remote, responses,
                 connections, qres>>

\* INSERT INTO PATIENT_DOC_INFO, one attachment per execute
ServerInsertAttachment(r) ==
  /\ r \in reqs /\ r.stage = "atts"
  /\ reqs' = (reqs \ {r}) \cup
               {[r EXCEPT !.natts = r.natts + 1,
                          !.stage = IF r.natts + 1 = Len(r.atts)
                                    THEN "commit" ELSE "atts"]}
  /\ toast' = Toast("none")
  /\ UNCHANGED <<storeVars, uiVars, syncVars, fetchCount, remote, responses,
                 connections, qres>>

\* connection.commit(), then res.json({status: 'success', oracleRecordId: masterId})
\* and connection.close() of the finally block
ServerCommit(r) ==
  /\ r \in reqs /\ r.stage = "commit"
  /\ remote' = remote \cup {[id |-> r.n, tid |-> r.tid, metadata |-> r.metadata,
                             atts |-> SubSeq(r.atts, 1, r.natts)]}
  /\ reqs' = Answer(r, 200, FALSE)
  /\ responses' = responses \cup {[tid |-> r.tid, id |-> r.n]}
  /\ connections' = connections \ {r.n}
  /\ toast' = Toast("none")
  /\ UNCHANGED <<storeVars, uiVars, syncVars, fetchCount, qres>>

\* Faulty variant: the inserts of a failing request are committed as they are
\* (as with autoCommit on every execute).
ServerFailKeepsInserts(r) ==
  /\ r \in reqs /\ r.stage \in {"check", "master", "atts", "commit"}
  /\ reqs' = Answer(r, 500, FALSE)
  /\ connections' = connections \ {r.n}
  /\ remote' = IF r.stage \in {"atts", "commit"}
               THEN remote \cup {[id |-> r.n, tid |-> r.tid, metadata |-> r.metadata,
                                  atts |-> SubSeq(r.atts, 1, r.natts)]}
               ELSE remote
  /\ toast' = Toast("none")
  /\ UNCHANGED <<storeVars, uiVars, syncVars, fetchCount, responses, qres>>

\* Faulty variant: no finally block; a failing request leaves its connection open.
ServerFailNoClose(r) ==
  /\ r \in reqs /\ r.stage \in {"check", "master", "atts", "commit"}
  /\ reqs' = Answer(r, 500, FALSE)
  /\ connections' = connections
  /\ toast' = Toast("none")
  /\ UNCHANGED <<storeVars, uiVars, syncVars, fetchCount, remote, responses, qres>>

\* getConnection or any statement throws: res.status(500); the finally block
\* closes the connection if there is one, which drops its inserts
ServerFail(r) ==
  /\ r \in reqs /\ r.stage \in {"check", "master", "atts", "commit"}
  /\ reqs' = Answer(r, 500, FALSE)
  /\ connections' = connections \ {r.n}
  /\ toast' = Toast("none")
  /\ UNCHANGED <<storeVars, uiVars, syncVars, fetchCount, remote, responses, qres>>

\* The commit of a readwrite transaction fails after all its requests succeeded
\* (e.g. quota exceeded while writing): IndexedDB fires 'abort' at the
\* transaction and no 'error' event; db.ts sets oncomplete and onerror only, so
\* neither resolve nor reject is called and the caller keeps waiting.
TxAbort ==
  /\ tx.op \in {"save", "update", "markSynced", "markFailed"}
  /\ tx.stage = "commit"
  /\ tx' = NoTx
  /\ toast' = Toast("none")
  /\ UNCHANGED <<masters, details, uiVars, syncVars, serverVars, qres>>

\* ------------------------------------------------------------------- wipe
\* The finished state of a page that has just been loaded: no handler running.
Reloaded ==
  /\ editingId' = NoId
  /\ isProcessing' = FALSE
  /\ docList' = <<>>
  /\ IdleSync

\* handleClearData, confirmed: the flag clear_db_pending is set and the page
\* reloads (a running transaction is aborted, or commits when its requests are
\* all done); performInitialChecks then calls clearDatabase, whose
\* deleteDatabase request keeps every later store operation waiting.
HandleClearData ==
  /\ tx.op # "deleteDatabase"
  /\ \E committed \in BOOLEAN :
       /\ committed => tx.stage = "commit"
       /\ masters' = IF committed THEN tx.wm ELSE masters
       /\ details' = IF committed THEN tx.wd ELSE details
  /\ tx' = [NoTx EXCEPT !.op = "deleteDatabase", !.stage = "request"]
  /\ Reloaded
  /\ toast' = Toast("none")
  /\ UNCHANGED <<clock, everSynced, serverVars, qres>>

\* Faulty variant: the wipe clears the masters and leaves the details.
WipeMastersOnly ==
  /\ tx.op = "deleteDatabase"
  /\ masters' = {}
  /\ tx' = NoTx
  /\ toast' = Toast("reset")
  /\ docList' = <<>>
  /\ UNCHANGED <<details, clock, editingId, isProcessing, syncVars, serverVars, qres>>

\* request.onsuccess of clearDatabase (at once, or after the connections that
\* blocked it are closed): both stores are gone; 'Application Reset' is shown
\* and loadDocs(1) loads the empty list.
WipeSuccess ==
  /\ tx.op = "deleteDatabase"
  /\ masters' = {}
  /\ details' = {}
  /\ tx' = NoTx
  /\ toast' = Toast("reset")
  /\ docList' = <<>>
  /\ UNCHANGED <<clock, editingId, isProcessing, syncVars, serverVars, qres>>

\* request.onerror of clearDatabase: the rejection is caught and reported, the
\* stores are kept and loadDocs(1) lists them.
WipeError ==
  /\ tx.op = "deleteDatabase" /\ tx.stage = "request"
  /\ tx' = NoTx
  /\ toast' = Toast("clearError")
  /\ docList' = ListedDocs(masters)
  /\ UNCHANGED <<masters, details, clock, editingId, isProcessing, syncVars,
                 serverVars, qres>>

\* request.onblocked of clearDatabase (a connection is open in another tab):
\* console.warn only; the promise stays pending.
WipeBlocked ==
  /\ tx.op = "deleteDatabase" /\ tx.stage = "request"
  /\ tx' = [tx EXCEPT !.stage = "blocked"]
  /\ toast' = Toast("none")
  /\ UNCHANGED <<masters, details, uiVars, syncVars, serverVars, qres>>

\* ------------------------------------------------------------ store queries
\* getDocuments(page, limit) called on the stores as they are
GetDocuments ==
  /\ \E page \in 1..MaxPage, limit \in 1..MaxLimit :
       LET res == getDocuments(masters, page, limit)
       IN  qres' = [op |-> "getDocuments", page |-> page, limit |-> limit,
                    masterId |-> NoId, docs |-> res.docs, total |-> res.total]
  /\ UNCHANGED <<storeVars, uiVars, toast, syncVars, serverVars>>

\* getDocumentDetails(masterId) called on the stores as they are
GetDocumentDetails ==
  /\ \E masterId \in Ids :
       qres' = [op |-> "getDocumentDetails", page |-> 0, limit |-> 0,
                masterId |-> masterId, docs |-> getDocumentDetails(details, masterId),
                total |-> 0]
  /\ UNCHANGED <<storeVars, uiVars, toast, syncVars, serverVars>>

\* Faulty variant: a read sees the writes of the running transaction.
DirtyMasters == IF tx = NoTx THEN masters ELSE tx.wm

\* What a readonly transaction sees of the two stores: the committed records.
\* IndexedDB starts it after the readwrite transactions created before it, or
\* beside a running one on a snapshot; either way without that one's writes.
ReadMasters == masters

ReadDetails == details

\* A reader of a pair, as handleEdit and processSyncBatch are: the master comes
\* from a list read (getDocuments, getPendingDocuments, getFailedDocuments) ...
ReadMaster ==
  /\ \E m \in ReadMasters :
       qres' = [op |-> "readMaster", master |-> m, docs |-> <<>>]
  /\ UNCHANGED <<storeVars, uiVars, toast, syncVars, serverVars>>

\* ... and its details from getDocumentDetails(master.id), a later transaction.
ReadPair ==
  /\ qres.op = "readMaster"
  /\ qres' = [op |-> "readPair", master |-> qres.master,
              docs |-> getDocumentDetails(ReadDetails, qres.master.id)]
  /\ UNCHANGED <<storeVars, uiVars, toast, syncVars, serverVars>>

\* ---------------------------------------------------------- specifications
\* Everything but the two stores, as the application starts.
Started ==
  /\ tx = NoTx
  /\ clock = 0
  /\ editingId = NoId
  /\ isProcessing = FALSE
  /\ docList = <<>>
  /\ toast = Toast("none")
  /\ isSyncing = FALSE
  /\ syncStatus = <<>>
  /\ syncPc = "idle"
  /\ batchKind = "none"
  /\ docsToSync = <<>>
  /\ idx = 0
  /\ successCount = 0
  /\ failCount = 0
  /\ acked = {}
  /\ written = {}
  /\ everSynced = {}
  /\ fetchCount = 0
  /\ reqs = {}
  /\ remote = {}
  /\ responses = {}
  /\ connections = {}
  /\ qres = [op |-> "none"]

Init ==
  /\ masters = {}
  /\ details = {}
  /\ Started

\* What a user enters in the sync specification: one name, one JPEG.
SyncNames == {"n1"}

SyncImageSeqs == {<<"data:image/jpeg;x">>}

StoreNext ==
  \/ SavePutMaster
  \/ SavePutDetails
  \/ UpdatePutMaster
  \/ UpdateGetAllKeys
  \/ UpdateReplaceDetails
  \/ SaveComplete
  \/ UpdateComplete
  \/ SaveError
  \/ HandleEdit

SyncNext ==
  \/ HandleSync
  \/ HandleRetryFailed
  \/ BatchReadAndSend
  \/ FetchResponse
  \/ FetchReject
  \/ BeginMark
  \/ MarkGet
  \/ MarkPut
  \/ MarkSyncedComplete
  \/ MarkSyncedError
  \/ MarkFailedComplete
  \/ MarkFailedError
  \/ BatchReload
  \/ \E r \in reqs : ServerCheck(r)
  \/ \E r \in reqs : ServerInsertMaster(r)
  \/ \E r \in reqs : ServerInsertAttachment(r)
  \/ \E r \in reqs : ServerCommit(r)
  \/ \E r \in reqs : ServerFail(r)

Next ==
  \/ HandleSave(SyncNames, SyncImageSeqs)
  \/ StoreNext
  \/ SyncNext

Spec == Init /\ [][Next]_vars

\* The store and the controller alone, with every image list a user can attach.
NextStore ==
  \/ HandleSave(Names, ImageSeqs(ImageData, MaxImages))
  \/ StoreNext

SpecStore == Init /\ [][NextStore]_vars

\* The store and the controller, with every form a user can submit.
NextForm ==
  \/ SubmitForm
  \/ StoreNext

SpecForm == Init /\ [][NextForm]_vars

\* The store and the controller, with a reader of pairs beside them.
NextRead ==
  \/ NextStore
  \/ ReadMaster
  \/ ReadPair

SpecRead == Init /\ [][NextRead]_vars

WipeNext ==
  \/ HandleClearData
  \/ WipeSuccess
  \/ WipeError
  \/ WipeBlocked

\* The store and the controller with the reset (handleClearData) and failing
\* commits added.
NextWipe ==
  \/ NextStore
  \/ WipeNext
  \/ TxAbort

SpecWipe == Init /\ [][NextWipe]_vars

\* The stores a sequence of saves can leave, and the two queries on them.
QueryIds == 1..(MaxDocs + 1)

\* Masters with distinct ids and distinct createdAt (Date.now() of distinct saves)
QueryMasters ==
  UNION {{{[id |-> i, name |-> "n1", createdAt |-> at[i], syncStatus |-> st[i]] : i \in S} :
            at \in {f \in [S -> QueryIds] : \A i, j \in S : f[i] = f[j] => i = j},
            st \in [S -> {"pending", "synced", "failed"}]} :
         S \in SUBSET QueryIds}

QueryDetailIds == 1..(MaxImages + 1)

\* Details with any ids whose sequences are 1..n within each master
DenseSequences(owner, seq) ==
  \A m \in Ids :
    LET mine == {k \in DOMAIN owner : owner[k] = m}
    IN  /\ \A j, k \in mine : seq[j] = seq[k] => j = k
        /\ {seq[k] : k \in mine} = 1..Cardinality(mine)

QueryDetails ==
  UNION {{{[id |-> k, masterId |-> os[1][k], sequence |-> os[2][k],
            imageData |-> "data:image/jpeg;x", mimeType |-> "image/jpeg"] : k \in S} :
            os \in {p \in [S -> Ids] \X [S -> QueryDetailIds] :
                      DenseSequences(p[1], p[2])}} :
         S \in SUBSET QueryDetailIds}

OwnersOf(D) ==
  {[id |-> i, name |-> "n1", createdAt |-> i, syncStatus |-> "pending"] :
     i \in {d.masterId : d \in D}}

InitQuery ==
  /\ Started
  /\ \/ /\ masters \in QueryMasters
        /\ details = {}
     \/ /\ details \in QueryDetails
        /\ masters = OwnersOf(details)

NextQuery ==
  \/ GetDocuments
  \/ GetDocumentDetails

SpecQuery == InitQuery /\ [][NextQuery]_vars

\* markAsSynced / markAsFailed called by a batch for its one candidate, on any
\* store: the candidate list is a snapshot, its record may be stored or gone.
MarkStores == {M \in QueryMasters : Cardinality(M) <= MaxDocs}

DetailsOf(M) ==
  {[id |-> m.id, masterId |-> m.id, sequence |-> 1,
    imageData |-> "data:image/jpeg;x", mimeType |-> "image/jpeg"] : m \in M}

InitMark ==
  /\ masters \in MarkStores
  /\ details = DetailsOf(masters)
  /\ tx = NoTx
  /\ clock = 0
  /\ editingId = NoId
  /\ isProcessing = FALSE
  /\ docList = ListedDocs(masters)
  /\ toast = Toast("none")
  /\ isSyncing = TRUE
  /\ syncStatus = <<1, 1>>
  /\ batchKind \in {"sync", "retry"}
  /\ \E id \in QueryIds :
       docsToSync = <<[id |-> id, name |-> "n1", createdAt |-> 1,
                       syncStatus |-> IF batchKind = "sync" THEN "pending"
                                      ELSE "failed"]>>
  /\ idx = 1
  /\ successCount = 0
  /\ failCount = 0
  /\ \/ syncPc = "markSynced" /\ acked = {[i |-> 1, existed |-> FALSE]}
     \/ syncPc = "markFailed" /\ acked = {}
  /\ written = {}
  /\ everSynced = {m.id : m \in {x \in masters : x.syncStatus = "synced"}}
  /\ fetchCount = 0
  /\ reqs = {}
  /\ remote = {}
  /\ responses = {}
  /\ connections = {}
  /\ qres = [op |-> "none"]

NextMark ==
  \/ BeginMark
  \/ MarkGet
  \/ MarkPut
  \/ MarkSyncedComplete
  \/ MarkSyncedError
  \/ MarkFailedComplete
  \/ MarkFailedError
  \/ BatchReload
  \/ TxAbort

\* Every step that can be taken is taken in the end: IndexedDB delivers the
\* events of a transaction, and the event loop runs the continuations.
SpecMark == InitMark /\ [][NextMark]_vars /\ WF_vars(NextMark)

\* Sync batches alone, on any store of captured (never synced) records, when
\* the endpoint is out of reach: an intermediary answers, or the fetch fails.
InitUpload ==
  /\ masters \in {M \in MarkStores : \A m \in M : m.syncStatus = "pending"}
  /\ details = DetailsOf(masters)
  /\ Started

NextUpload ==
  \/ HandleSync
  \/ HandleRetryFailed
  \/ BatchReadAndSend
  \/ FetchMalformed
  \/ FetchReject
  \/ BeginMark
  \/ MarkGet
  \/ MarkPut
  \/ MarkSyncedComplete
  \/ MarkSyncedError
  \/ MarkFailedComplete
  \/ MarkFailedError
  \/ BatchReload

SpecUpload == InitUpload /\ [][NextUpload]_vars

\* Sync batches on the stores a sequence of saves can leave: detail ids in any
\* order relative to the sequences, up to MaxImages + 1 details in all.
InitPayload ==
  /\ details \in QueryDetails
  /\ masters = OwnersOf(details)
  /\ Started

SpecPayload == InitPayload /\ [][NextUpload]_vars

\* Two calls of saveDocument / updateDocument made at the same time for the
\* two ids, on any store: updateDocument for a stored id, saveDocument for a
\* new one.  Both transactions are created at once; IndexedDB runs readwrite
\* transactions over the same stores one at a time, in the order of creation.
CallFor(id, imgs, saveNo) ==
  [op |-> IF \E m \in masters : m.id = id THEN "update" ELSE "save",
   master |-> [id |-> id, name |-> "n2", createdAt |-> saveNo + MaxDocs,
               syncStatus |-> "pending"],
   dets |-> BuildDetails(id, imgs, [k \in 1..Len(imgs) |-> k], saveNo)]

InitPair ==
  /\ details \in QueryDetails
  /\ masters = OwnersOf(details)
  /\ tx = NoTx
  /\ clock = 0
  /\ editingId = NoId
  /\ isProcessing = FALSE
  /\ docList = <<>>
  /\ toast = Toast("none")
  /\ isSyncing = FALSE
  /\ syncStatus = <<>>
  /\ syncPc = "idle"
  /\ batchKind = "none"
  /\ docsToSync = <<>>
  /\ idx = 0
  /\ successCount = 0
  /\ failCount = 0
  /\ acked = {}
  /\ written = {}
  /\ everSynced = {}
  /\ fetchCount = 0
  /\ reqs = {}
  /\ remote = {}
  /\ responses = {}
  /\ connections = {}
  /\ \E first \in Ids, imgs1, imgs2 \in ImageSeqs({"data:image/jpeg;x"}, MaxImages) :
       \E second \in Ids \ {first} :
         LET calls == <<CallFor(first, imgs1, 1), CallFor(second, imgs2, 2)>>
         IN  qres = [op |-> "calls", masters |-> masters, details |-> details,
                     calls |-> calls, queued |-> calls]

\* The first transaction in the queue starts when no other one runs.
StartQueued ==
  /\ qres.op = "calls" /\ qres.queued # <<>>
  /\ tx = NoTx
  /\ LET c == Head(qres.queued)
     IN  tx' = BeginTx(c.op, "putMaster", c.master, c.dets)
  /\ qres' = [qres EXCEPT !.queued = Tail(qres.queued)]
  /\ toast' = Toast("none")
  /\ UNCHANGED <<masters, details, uiVars, syncVars, serverVars>>

NextPair ==
  \/ StartQueued
  \/ SavePutMaster
  \/ SavePutDetails
  \/ UpdatePutMaster
  \/ UpdateGetAllKeys
  \/ UpdateReplaceDetails
  \/ SaveComplete
  \/ UpdateComplete

SpecPair == InitPair /\ [][NextPair]_vars

\* A call of saveDocument or updateDocument as a caller of db.ts may make it:
\* either operation on any id, stored or not, with details of fresh ids.
Call(op, id, imgs, saveNo) ==
  [op |-> op,
   master |-> [id |-> id, name |-> "n2", createdAt |-> saveNo + MaxDocs,
               syncStatus |-> "pending"],
   dets |-> BuildDetails(id, imgs, [k \in 1..Len(imgs) |-> k], saveNo)]

\* Two calls on one id, one after the other, on every store of QueryDetails.
InitCalls ==
  /\ details \in QueryDetails
  /\ masters = OwnersOf(details)
  /\ tx = NoTx
  /\ clock = 0
  /\ editingId = NoId
  /\ isProcessing = FALSE
  /\ docList = <<>>
  /\ toast = Toast("none")
  /\ isSyncing = FALSE
  /\ syncStatus = <<>>
  /\ syncPc = "idle"
  /\ batchKind = "none"
  /\ docsToSync = <<>>
  /\ idx = 0
  /\ successCount = 0
  /\ failCount = 0
  /\ acked = {}
  /\ written = {}
  /\ everSynced = {}
  /\ fetchCount = 0
  /\ reqs = {}
  /\ remote = {}
  /\ responses = {}
  /\ connections = {}
  /\ \E id \in Ids, op1, op2 \in {"save", "update"},
        imgs1, imgs2 \in ImageSeqs({"data:image/jpeg;x"}, MaxImages) :
       LET calls == <<Call(op1, id, imgs1, 1), Call(op2, id, imgs2, 2)>>
       IN  qres = [op |-> "calls", masters |-> masters, details |-> details,
                   calls |-> calls, queued |-> calls]

SpecCalls == InitCalls /\ [][NextPair]_vars

\* The application opened on a store that holds records of earlier sessions
\* (captured before this session's clock, all 'pending'), the list loaded.
EarlierMasters(D) ==
  {[id |-> i, name |-> "n1", createdAt |-> i - MaxDocs, syncStatus |-> "pending"] :
     i \in {d.masterId : d \in D}}

InitEdit ==
  /\ details \in QueryDetails
  /\ masters = EarlierMasters(details)
  /\ tx = NoTx
  /\ clock = 0
  /\ editingId = NoId
  /\ isProcessing = FALSE
  /\ docList = ListedDocs(masters)
  /\ toast = Toast("none")
  /\ isSyncing = FALSE
  /\ syncStatus = <<>>
  /\ syncPc = "idle"
  /\ batchKind = "none"
  /\ docsToSync = <<>>
  /\ idx = 0
  /\ successCount = 0
  /\ failCount = 0
  /\ acked = {}
  /\ written = {}
  /\ everSynced = {}
  /\ fetchCount = 0
  /\ reqs = {}
  /\ remote = {}
  /\ responses = {}
  /\ connections = {}
  /\ qres = [op |-> "none"]

SpecEdit == InitEdit /\ [][NextStore]_vars

\* The steps of a batch that the tab takes by itself: the loop's code and the
\* events of its IndexedDB transactions.  What the network does with a fetch
\* (FetchMalformed, FetchReject) and when the user clicks are not among them.
BatchStep ==
  \/ BatchReadAndSend
  \/ BeginMark
  \/ MarkGet
  \/ MarkPut
  \/ MarkSyncedComplete
  \/ MarkSyncedError
  \/ MarkFailedComplete
  \/ MarkFailedError
  \/ BatchReload

\* SpecUpload where the tab's own steps are taken in the end, and a fetch may
\* stay unanswered for ever (fetch is called with no timeout and no signal).
SpecStall == InitUpload /\ [][NextUpload]_vars /\ WF_vars(BatchStep)

\* SpecUpload where every call the batch awaits settles: the tab's own steps
\* are taken in the end, and every fetch resolves or rejects.
FetchSettles ==
  \/ FetchMalformed
  \/ FetchReject

SpecSettle ==
  InitUpload /\ [][NextUpload]_vars /\ WF_vars(BatchStep) /\ WF_vars(FetchSettles)

\* Batches with edits beside them: the application opened on MaxDocs pending
\* records, its list loaded.
InitBatchEdit ==
  /\ masters \in {M \in MarkStores : /\ {m.id : m \in M} = Ids
                                     /\ \A m \in M : m.syncStatus = "pending"}
  /\ details = DetailsOf(masters)
  /\ tx = NoTx
  /\ clock = 0
  /\ editingId = NoId
  /\ isProcessing = FALSE
  /\ docList = ListedDocs(masters)
  /\ toast = Toast("none")
  /\ isSyncing = FALSE
  /\ syncStatus = <<>>
  /\ syncPc = "idle"
  /\ batchKind = "none"
  /\ docsToSync = <<>>
  /\ idx = 0
  /\ successCount = 0
  /\ failCount = 0
  /\ acked = {}
  /\ written = {}
  /\ everSynced = {}
  /\ fetchCount = 0
  /\ reqs = {}
  /\ remote = {}
  /\ responses = {}
  /\ connections = {}
  /\ qres = [op |-> "none"]

NextBatchEdit ==
  \/ HandleEdit
  \/ HandleSave(SyncNames, SyncImageSeqs)
  \/ UpdatePutMaster
  \/ UpdateGetAllKeys
  \/ UpdateReplaceDetails
  \/ UpdateComplete
  \/ SaveError
  \/ NextUpload

SpecBatchEdit == InitBatchEdit /\ [][NextBatchEdit]_vars

\* The endpoint alone.  A request body is a record that may lack fields; the
\* attachments may be any list, the empty one included.
Attachments(k) ==
  [i \in 1..k |-> [sequence |-> i, mimeType |-> "image/jpeg",
                   data |-> "data:image/jpeg;x"]]

Bodies ==
  LET full == {[transactionId |-> id,
                metadata |-> [fullName |-> "n1", capturedAt |-> 1],
                attachments |-> Attachments(k)] : id \in Ids, k \in 0..MaxImages}
  IN  full \cup {[f \in DOMAIN b \ {g} |-> b[f]] :
                   b \in full, g \in {"transactionId", "metadata", "attachments"}}

\* if (!transactionId || !metadata || !attachments)
ValidBody(b) == {"transactionId", "metadata", "attachments"} \subseteq DOMAIN b

\* app.post('/api/v1/documents/sync'): an invalid body is answered 400 before
\* any connection is asked for; a valid one goes on to getConnection.
ServerReceive(b) ==
  /\ fetchCount < MaxFetches
  /\ fetchCount' = fetchCount + 1
  /\ reqs' = IF ValidBody(b) THEN reqs \cup {NewRequest(fetchCount + 1, b)} ELSE reqs
  /\ toast' = Toast("none")
  /\ UNCHANGED <<storeVars, uiVars, syncVars, remote, responses, connections, qres>>

NextEndpoint ==
  \/ \E b \in Bodies : ServerReceive(b)
  \/ \E r \in reqs : ServerCheck(r)
  \/ \E r \in reqs : ServerInsertMaster(r)
  \/ \E r \in reqs : ServerInsertAttachment(r)
  \/ \E r \in reqs : ServerCommit(r)
  \/ \E r \in reqs : ServerFail(r)

SpecEndpoint == Init /\ [][NextEndpoint]_vars

\* ------------------------------------------------------------------ claims
\* The stored syncStatus of the master with this id ("none" when not stored).
StatusOf(M, id) ==
  IF \E m \in M : m.id = id THEN (CHOOSE m \in M : m.id = id).syncStatus ELSE "none"

\* The master and exactly its details, in sequence order, are stored.
AllStored(M, D, m, ds) ==
  /\ {x \in M : x.id = m.id} = {m}
  /\ getDocumentDetails(D, m.id) = ds

\* Neither the master nor any detail of it is stored.
NoneStored(M, D, m, ds) ==
  /\ \A x \in M : x.id # m.id
  /\ \A d \in D : d.masterId # m.id /\ (\A k \in DOMAIN ds : d.id # ds[k].id)

\* C1: saveDocument(master, details) is all-or-nothing.  At every step taken
\* while a saveDocument transaction runs (a request of it, its completion, its
\* abort midway, or any other handler's step), the stores afterwards hold
\* either the master together with exactly the given details or neither the
\* master nor any of the details.
C1_SaveAllOrNothing ==
  [][tx.op = "save" =>
       \/ AllStored(masters', details', tx.master, tx.dets)
       \/ NoneStored(masters', details', tx.master, tx.dets)]_vars

\* A first save of two images has completed and both details are stored.
C1_Witness ==
  /\ tx = NoTx
  /\ clock = 1
  /\ \E m \in masters : Len(getDocumentDetails(details, m.id)) = 2

\* C2: updateDocument(master, details) replaces and never merges.  When its
\* transaction completes, the stored master is the given one, the details
\* stored for master.id are exactly the given ones in sequence order, and no
\* detail stored for master.id before the call remains.
C2_UpdateReplaces ==
  [][(tx.op = "update" /\ tx.stage = "commit" /\ tx' = NoTx) =>
       /\ {m \in masters' : m.id = tx.master.id} = {tx.master}
       /\ {d \in details' : d.masterId = tx.master.id} = Range(tx.dets)
       /\ getDocumentDetails(details', tx.master.id) = tx.dets
       /\ \A d \in details : d.masterId = tx.master.id => d \notin details']_vars

\* An update of a document stored with two details to one new detail is about
\* to commit: its working copy holds the new detail only.
C2_Witness ==
  /\ tx.op = "update" /\ tx.stage = "commit"
  /\ Cardinality({d \in details : d.masterId = tx.master.id}) = 2
  /\ Len(tx.dets) = 1
  /\ {d \in tx.wd : d.masterId = tx.master.id} = Range(tx.dets)

\* C3: there is no transition out of 'synced'.  No step of any interleaving of
\* handleSave, handleEdit, handleSync and handleRetryFailed changes the stored
\* syncStatus of a master that is 'synced'.
C3_SyncedIsTerminal ==
  [][\A m \in masters : m.syncStatus = "synced" =>
       \A x \in masters' : x.id = m.id => x.syncStatus = "synced"]_vars

\* C4: a record that has reached 'synced' is never sent again.  No upload is
\* issued for an id whose status has been 'synced', and a 'synced' master is in
\* neither getPendingDocuments() nor getFailedDocuments().
C4_SyncedNeverResent ==
  [][/\ fetchCount' # fetchCount => docsToSync[idx].id \notin everSynced
     /\ \A m \in masters' : m.syncStatus = "synced" =>
          m \notin Range(getPendingDocuments(masters'))
                     \cup Range(getFailedDocuments(masters'))]_vars

\* The indices of the running batch whose upload was acknowledged.
AckedIdx == {a.i : a \in acked}

\* C5: processSyncBatch isolates per-record failures.  Every batch that was
\* started ends after its last candidate with the summary, not with an error,
\* and then every acknowledged candidate is 'synced' and every other candidate
\* is 'failed'.
C5_PerRecordIsolation ==
  [][(isSyncing /\ ~isSyncing') =>
       /\ toast'.type = "summary"
       /\ \A i \in 1..Len(docsToSync) :
            StatusOf(masters', docsToSync[i].id) =
              IF i \in AckedIdx THEN "synced" ELSE "failed"]_vars

C7_RemoteIdempotent ==
  \A tid \in Ids :
    /\ Cardinality(RowsOf(tid)) <= 1
    /\ Cardinality({r.id : r \in {x \in responses : x.tid = tid}}) <= 1

\* C8: a retry after an ambiguous outcome.  When a handleRetryFailed batch
\* ends, every candidate for which the remote answered 'already exists' is
\* 'synced', and the remote holds exactly one record and has answered exactly
\* one remote id for its transactionId.
C8_IdempotentRetry ==
  [][(batchKind = "retry" /\ isSyncing /\ ~isSyncing') =>
       \A a \in acked : a.existed =>
         LET id == docsToSync[a.i].id
         IN  /\ StatusOf(masters', id) = "synced"
             /\ Cardinality(RowsOf(id)) = 1
             /\ Cardinality({r.id : r \in {x \in responses : x.tid = id}}) = 1]_vars

\* The master of M with exactly k - 1 masters of M created after it.
RankDesc(M, k) ==
  CHOOSE m \in M : Cardinality({o \in M : o.createdAt > m.createdAt}) = k - 1

\* Positions (page-1)*limit .. min(page*limit, N)-1 of the createdAt-descending order.
ExpectedPage(M, page, limit) ==
  LET lo == (page - 1) * limit
      hi == Min(page * limit, Cardinality(M))
  IN  IF hi > lo THEN [i \in 1..(hi - lo) |-> RankDesc(M, lo + i)] ELSE <<>>

\* C9: getDocuments(page, limit) on N stored masters, page >= 1 and limit >= 1,
\* returns exactly the masters at positions (page-1)*limit to
\* min(page*limit, N)-1 of the createdAt-descending order, and total = N.
C9_PageContents ==
  qres.op = "getDocuments" =>
    /\ qres.docs = ExpectedPage(masters, qres.page, qres.limit)
    /\ qres.total = Cardinality(masters)

\* The second page of two, of three stored masters: one document, total 3.
C9_Witness ==
  /\ qres.op = "getDocuments"
  /\ qres.page = 2 /\ qres.limit = 2
  /\ Len(qres.docs) = 1
  /\ qres.total = 3

\* C10: getDocumentDetails(masterId) returns exactly the details stored with
\* that masterId, each once, in ascending order of sequence, whatever the order
\* in which the store holds them.
C10_DetailsSorted ==
  qres.op = "getDocumentDetails" =>
    LET ds == qres.docs
        mine == {d \in details : d.masterId = qres.masterId}
    IN  /\ Range(ds) = mine
        /\ Len(ds) = Cardinality(mine)
        /\ \A i, j \in 1..Len(ds) : i < j => ds[i].sequence < ds[j].sequence

\* Three details held by the store in the order of sequences 3, 1, 2 (keys 1, 2,
\* 3) are returned in the order of sequences 1, 2, 3 (keys 2, 3, 1).
C10_Witness ==
  /\ qres.op = "getDocumentDetails"
  /\ Len(qres.docs) = 3
  /\ [k \in 1..3 |-> qres.docs[k].id] = <<2, 3, 1>>
  /\ [k \in 1..3 |-> qres.docs[k].sequence] = <<1, 2, 3>>

\* C11: when the lookup of the existing details inside updateDocument fails,
\* the transaction aborts: the stored master and the stored details are what
\* they were before the call (the new master is not written, no old detail is
\* deleted, no new detail is inserted) and handleSave reports the failure.
C11_LookupFailureAborts ==
  [][(tx.op = "update" /\ tx.stage = "getAllKeys" /\ tx' = NoTx) =>
       /\ masters' = masters
       /\ details' = details
       /\ tx.master \notin masters'
       /\ \A k \in DOMAIN tx.dets : tx.dets[k] \notin details'
       /\ toast'.type = "saveError"]_vars

\* An update of a document stored with two details has put its new master and
\* waits for the lookup of the existing details.
C11_Witness ==
  /\ tx.op = "update" /\ tx.stage = "getAllKeys"
  /\ tx.master \in tx.wm /\ tx.master \notin masters
  /\ Cardinality({d \in details : d.masterId = tx.master.id}) = 2

\* C12: createdAt is immutable.  No step changes the createdAt of a stored
\* master: the value stored at creation is the value stored in every later
\* state, under any sequence of edits and status writes.
C12_CreatedAtImmutable ==
  [][\A m \in masters : \A x \in masters' :
       x.id = m.id => x.createdAt = m.createdAt]_vars

\* C13: a stored master's syncStatus changes only through the sync engine.
\* Every step that changes the syncStatus of a stored record is the completion
\* of a markAsSynced or markAsFailed transaction; no capture and no edit changes
\* the syncStatus of an existing record.
C13_StatusOnlyBySyncEngine ==
  [][\A m \in masters : \A x \in masters' :
       (x.id = m.id /\ x.syncStatus # m.syncStatus) =>
         tx.op \in {"markSynced", "markFailed"}]_vars

\* C14: referential integrity is an invariant.  In every reachable state every
\* stored detail's masterId is the id of a stored master.
C14_ReferentialIntegrity ==
  \A d \in details : \E m \in masters : m.id = d.masterId

\* A wipe has been requested and is blocked while a document with two details
\* is stored.
C14_Witness ==
  /\ tx.op = "deleteDatabase" /\ tx.stage = "blocked"
  /\ Cardinality(masters) = 1
  /\ Cardinality(details) = 2

\* C15: a blocked wipe is reported.  When clearDatabase is blocked by a
\* connection that is still open, the step that delivers the blocked event
\* settles the promise and the caller reports the outcome.
C15_BlockedWipeReported ==
  [][(tx.op = "deleteDatabase" /\ tx.stage = "request" /\ tx'.stage = "blocked") =>
       toast'.type = "clearError"]_vars

\* C16: every store operation's promise settles on every outcome of the
\* storage: a batch that awaits markAsSynced or markAsFailed for a candidate
\* eventually gets past the await (with the promise resolved or rejected).
C16_MarkEventuallySettles ==
  (syncPc \in {"markSyncedTx", "markFailedTx"})
    ~> (syncPc \notin {"markSyncedTx", "markFailedTx"})

\* C17: a successful HTTP status with a malformed body is a failure: a fetch
\* that ends without a well-formed acknowledgment for the candidate sends the
\* batch to markAsFailed (the record is marked 'failed' and counted failed).
C17_UnackedGoesToFailed ==
  [][(syncPc = "upload" /\ syncPc' # "upload" /\ idx \notin {a.i : a \in acked'}) =>
       syncPc' = "markFailed"]_vars

\* A candidate whose upload failed (no acknowledgment) has been processed, and
\* its stored status is 'failed'.
FailedAfterProcessing ==
  (syncPc = "markFailedTx" /\ syncPc' # "markFailedTx" /\ idx \notin AckedIdx) =>
    StatusOf(masters', docsToSync[idx].id) = "failed"

\* A retry batch ends, and each of its candidates is 'synced' or 'failed'.
RetryNeverPending ==
  (isSyncing /\ ~isSyncing' /\ batchKind = "retry") =>
    \A i \in 1..Len(docsToSync) :
      StatusOf(masters', docsToSync[i].id) \in {"synced", "failed"}

\* C18: an upload error or a local read failure fails only that record: after
\* the candidate is processed its status is 'failed', and a candidate of a
\* retry batch ends 'synced' or 'failed', never 'pending'.
C18_UploadErrorFailsRecord ==
  [][FailedAfterProcessing /\ RetryNeverPending]_vars

\* A transaction of markAsSynced / markAsFailed runs on an id that is not stored.
MarkOfMissingId ==
  /\ tx.op \in {"markSynced", "markFailed"}
  /\ \A m \in masters : m.id # tx.master.id

\* C19: markAsSynced and markAsFailed on an id that is not stored are a no-op
\* and not an error: the successful get is followed by the commit with nothing
\* put, the completed transaction resolves the promise (the batch goes on to
\* its next step), all masters and all details are as they were and no record
\* with that id exists.
C19_MarkMissingIsNoOp ==
  [][MarkOfMissingId =>
       /\ (tx.stage = "get" /\ tx' # NoTx /\ tx'.stage # "get") =>
            (tx'.stage = "commit" /\ tx'.wm = masters)
       /\ (tx.stage = "commit" /\ syncPc' # syncPc) =>
            (syncPc' \in {"details", "reload"} /\ toast'.type # "syncError")
       /\ tx' = NoTx =>
            /\ masters' = masters
            /\ details' = details
            /\ StatusOf(masters', tx.master.id) = "none"]_vars

\* The get of a mark on a missing id has succeeded, on a store that holds
\* other records.
C19_Witness ==
  /\ MarkOfMissingId
  /\ tx.stage = "commit"
  /\ Cardinality(masters) = MaxDocs
  /\ details # {}

\* C20: local validation rejects before any write: when handleSave runs on a
\* form whose name, phone or reference is empty or that has no image, neither
\* saveDocument nor updateDocument is called (no transaction is begun) and
\* the store is unchanged.  Stated per step: either nothing is begun and the
\* store is unchanged, or the step is not handleSave on an incomplete form.
C20_InvalidFormWritesNothing ==
  [][\/ /\ tx' = NoTx
        /\ masters' = masters
        /\ details' = details
     \/ ~(\E name \in FormNames, phone \in FormPhones, refId \in FormRefIds,
             imgs \in FormImages :
            /\ name = "" \/ phone = "" \/ refId = "" \/ imgs = <<>>
            /\ HandleSaveForm(name, phone, refId, imgs))]_vars

\* An incomplete form has just been rejected, on a store that holds a record.
C20_Witness ==
  /\ toast.type = "warning"
  /\ masters # {}
  /\ details # {}
  /\ tx = NoTx

\* C21: the batch is processed strictly sequentially in list order.  An upload
\* is sent only for the candidate the loop is at, when no earlier upload of the
\* batch is awaited and no status write runs; and the loop moves to another
\* candidate only by the completion of the status write (markAsSynced or
\* markAsFailed) of the candidate it is at, and then to the next in the list.
C21_StrictlySequential ==
  [][/\ (fetchCount' # fetchCount) =>
          /\ syncPc = "details" /\ syncPc' = "upload"
          /\ tx = NoTx
          /\ \E r \in reqs' \ reqs :
               r.n = fetchCount' /\ r.tid = docsToSync[idx].id
     /\ (isSyncing /\ isSyncing' /\ idx' # idx) =>
          /\ idx' = idx + 1
          /\ tx.op \in {"markSynced", "markFailed"}
          /\ tx.master.id = docsToSync[idx].id
          /\ tx.stage = "commit" /\ tx' = NoTx
          /\ syncPc' = "details"]_vars

\* The upload of the second candidate is awaited, and the first candidate's
\* status has been written.
C21_Witness ==
  /\ isSyncing /\ idx = 2 /\ syncPc = "upload"
  /\ CurrentReq # {}
  /\ StatusOf(masters, docsToSync[1].id) \in {"synced", "failed"}

\* C22: an upload that never resolves stalls only that one record: a batch
\* that awaits the upload of its first candidate and has further candidates
\* does not wait there for ever (the upload completes, or the batch attends to
\* the other candidates).
C22_StallOnlyOneRecord ==
  (isSyncing /\ idx = 1 /\ syncPc = "upload" /\ Len(docsToSync) > 1)
    ~> ~(isSyncing /\ idx = 1 /\ syncPc = "upload")

\* The save (its number is the clock value it took) that wrote this detail.
SaveNoOf(d) == d.id \div (MaxImages + 1)

\* C23: no reader observes a half-written pair.  A reader that has read a
\* master and then its details has a detail list that is not empty, comes whole
\* from one save (no mix of an old and a new set), is not older than the master
\* it read, and has the sequences 1..n.
C23_ReaderSeesWholePair ==
  qres.op = "readPair" =>
    /\ Len(qres.docs) >= 1
    /\ \E c \in 1..MaxSaves :
         /\ c >= qres.master.createdAt
         /\ \A k \in 1..Len(qres.docs) :
              /\ SaveNoOf(qres.docs[k]) = c
              /\ qres.docs[k].masterId = qres.master.id
              /\ qres.docs[k].sequence = k

\* A pair is read while an update of that master is between its master put and
\* the replacement of its details.
C23_Witness ==
  /\ qres.op = "readPair"
  /\ tx.op = "update" /\ tx.stage = "getAllKeys"
  /\ tx.master.id = qres.master.id
  /\ Len(qres.docs) = MaxImages

\* C24: an empty candidate list is 'nothing to do' and not an error: when
\* handleSync finds no pending record, or handleRetryFailed no failed one, no
\* upload request is sent, no record changes, the informational message is
\* reported and the syncing flag is cleared.  (A read that fails is reported
\* as an error; that is not the case of an empty list.)
C24_EmptyListNothingToDo ==
  [][\A kind \in {"sync", "retry"} :
       (/\ ~isSyncing /\ tx = NoTx
        /\ (IF kind = "sync" THEN getPendingDocuments(masters)
                             ELSE getFailedDocuments(masters)) = <<>>
        /\ toast'.type # "syncError"
        /\ HandleSyncOrRetry(kind)) =>
         /\ toast'.type = "nothing"
         /\ ~isSyncing'
         /\ reqs' = reqs /\ fetchCount' = fetchCount
         /\ masters' = masters /\ details' = details
         /\ tx' = NoTx]_vars

\* 'Nothing to do' has just been reported on a store that holds records.
C24_Witness ==
  /\ toast.type = "nothing"
  /\ ~isSyncing
  /\ Cardinality(masters) = MaxDocs

\* C25: sequence numbers stay dense: in every state reached through captures
\* and edits, with any image list the form can hold when it is saved, the
\* sequences of the stored details of each master are exactly 1..n, n being the
\* number of its details (no gap, no duplicate).
C25_SequencesDense ==
  \A m \in masters :
    LET mine == {d \in details : d.masterId = m.id}
    IN  /\ \A d, e \in mine : d.sequence = e.sequence => d = e
        /\ {d.sequence : d \in mine} = 1..Cardinality(mine)

\* An edit that removed an image of a stored master with MaxImages images has
\* written its one remaining image and is about to complete.
C25_Witness ==
  /\ tx.op = "update" /\ tx.stage = "commit"
  /\ Cardinality({d \in details : d.masterId = tx.master.id}) = MaxImages
  /\ Cardinality({d \in tx.wd : d.masterId = tx.master.id}) = 1

\* The loop comes to the point where it uploads only for a candidate it has
\* not been at before (the first of a new batch, or the next in the list), and
\* a request is sent only from that point: at most one upload per candidate.
OneUploadPerCandidate ==
  /\ (syncPc' = "details" /\ syncPc # "details") =>
       \/ ~isSyncing /\ idx' = 1
       \/ isSyncing /\ idx' = idx + 1
  /\ (fetchCount' # fetchCount) =>
       (syncPc = "details" /\ syncPc' = "upload" /\ fetchCount' = fetchCount + 1)

\* The loop leaves a candidate (for the next one, or because the batch ends)
\* in the step that completes a status write of that candidate; since such a
\* step always leaves it, that is its one status write.
OneStatusWritePerCandidate ==
  (isSyncing /\ (idx' # idx \/ ~isSyncing')) =>
    /\ tx.op \in {"markSynced", "markFailed"}
    /\ tx.master.id = docsToSync[idx].id
    /\ tx.stage = "commit" /\ tx' = NoTx
    /\ StatusOf(masters', docsToSync[idx].id) \in {"synced", "failed"}

\* C26: within one batch each candidate gets at most one upload attempt and
\* exactly one status write; no candidate is resubmitted or uploaded twice in
\* one run of processSyncBatch.
C26_OneAttemptOneWrite ==
  [][OneUploadPerCandidate /\ OneStatusWritePerCandidate]_vars

\* C27: batches are homogeneous: a record uploaded by a handleSync run is
\* 'pending' at the moment its request is sent, and a record uploaded by a
\* handleRetryFailed run is 'failed' at that moment, under any interleaving
\* with captures and edits.
C27_HomogeneousBatches ==
  [][(fetchCount' # fetchCount) =>
       StatusOf(masters, docsToSync[idx].id) =
         IF batchKind = "sync" THEN "pending" ELSE "failed"]_vars

RunAlone(M, D, c) ==
  [m |-> Put(M, c.master),
   d |-> IF c.op = "update"
         THEN PutAll({x \in D : x.masterId # c.master.id}, c.dets)
         ELSE PutAll(D, c.dets)]

\* The two calls have both completed.
BothDone == qres.op = "calls" /\ qres.queued = <<>> /\ tx = NoTx

\* C29: concurrent saveDocument / updateDocument calls for different master
\* ids do not interfere: when both have succeeded, the stores are what running
\* the calls one after the other gives, in either order, and each id's master
\* and detail set are exactly what its own call wrote.
C29_CallsDoNotInterfere ==
  BothDone =>
    LET a == qres.calls[1]
        b == qres.calls[2]
        ab == RunAlone(RunAlone(qres.masters, qres.details, a).m,
                       RunAlone(qres.masters, qres.details, a).d, b)
        ba == RunAlone(RunAlone(qres.masters, qres.details, b).m,
                       RunAlone(qres.masters, qres.details, b).d, a)
    IN  /\ masters = ab.m /\ details = ab.d
        /\ masters = ba.m /\ details = ba.d
        /\ \A i \in {1, 2} :
             /\ {m \in masters : m.id = qres.calls[i].master.id}
                  = {qres.calls[i].master}
             /\ {d \in details : d.masterId = qres.calls[i].master.id}
                  = Range(qres.calls[i].dets)

\* An update of one stored master and a save of a new one, made together on a
\* store whose master had MaxImages + 1 details, have both completed.
C29_Witness ==
  /\ BothDone
  /\ Cardinality(qres.details) = MaxImages + 1
  /\ Cardinality(qres.masters) = 1
  /\ \E i, j \in {1, 2} : qres.calls[i].op = "update" /\ qres.calls[j].op = "save"

\* C30: an edit keeps the record's identity: the handleSave that follows
\* handleEdit and succeeds writes under the id handleEdit selected, which is
\* stored; the number of stored masters is unchanged, and every other master
\* and every other master's details are unchanged.
C30_EditKeepsIdentity ==
  [][(tx.op = "update" /\ tx.stage = "commit" /\ tx' = NoTx) =>
       /\ tx.master.id = editingId
       /\ \E m \in masters : m.id = editingId
       /\ \E m \in masters' : m.id = editingId
       /\ Cardinality(masters') = Cardinality(masters)
       /\ {m \in masters' : m.id # editingId} = {m \in masters : m.id # editingId}
       /\ {d \in details' : d.masterId # editingId}
            = {d \in details : d.masterId # editingId}]_vars

\* The edit of one of two stored masters is about to complete; the other
\* master has details.
C30_Witness ==
  /\ tx.op = "update" /\ tx.stage = "commit"
  /\ Cardinality(masters) = 2
  /\ \E d \in details : d.masterId # tx.master.id
  /\ \E d \in details : d.masterId = tx.master.id

\* C31: local 'synced' implies the remote holds the current local content: for
\* every master stored as 'synced', the remote has a record keyed by its id,
\* and that record has the metadata and the attachment list that the payload
\* of the master's stored fields and stored details has.
C31_SyncedMeansRemoteCurrent ==
  \A m \in masters :
    m.syncStatus = "synced" =>
      /\ RowsOf(m.id) # {}
      /\ \A row \in RowsOf(m.id) :
           LET p == Payload(m, getDocumentDetails(details, m.id))
           IN  row.metadata = p.metadata /\ row.atts = p.attachments

\* The steps of a running processSyncBatch.
BatchRunning ==
  syncPc \in {"details", "upload", "markSynced", "markFailed", "markSyncedTx",
              "markFailedTx"}

\* C32: at most one batch runs at a time.  isSyncing is true exactly while a
\* processSyncBatch runs; handleSync and handleRetryFailed start only when it is
\* false; while it stays true the running batch keeps its candidate list and
\* its kind and moves through the list one candidate at a time; a status
\* write in progress and the upload awaited are those of the running batch's
\* current candidate.
C32_OneBatchAtATime ==
  /\ [](/\ isSyncing <=> BatchRunning
        /\ tx.op \in {"markSynced", "markFailed"} =>
             isSyncing /\ tx.master.id = docsToSync[idx].id
        /\ syncPc = "upload" =>
             /\ Cardinality(CurrentReq) <= 1
             /\ \A r \in CurrentReq : r.tid = docsToSync[idx].id)
  /\ [][/\ (HandleSync \/ HandleRetryFailed) => ~isSyncing
        /\ (isSyncing /\ isSyncing') =>
             /\ docsToSync' = docsToSync
             /\ batchKind' = batchKind
             /\ idx' \in {idx, idx + 1}]_vars

\* A retry batch uploads a record whose upload by the earlier, finished batch
\* the endpoint is still working on.
C32_Witness ==
  /\ isSyncing /\ batchKind = "retry" /\ syncPc = "upload"
  /\ \E r \in reqs : r.n < fetchCount /\ r.tid = docsToSync[idx].id

\* C33: the syncing flag is always released.  Whenever no batch is running,
\* isSyncing is false and the progress text is empty; every step on which
\* handleSync or handleRetryFailed returns (nothing to do, the summary of a
\* completed batch, an error escaping the batch) leaves them so; and when every
\* upload and every store call settles, a started batch returns in the end.
C33_FlagAlwaysReleased ==
  /\ [](~BatchRunning => (~isSyncing /\ syncStatus = <<>>))
  /\ [][toast'.type \in {"nothing", "summary", "syncError"} =>
          (~isSyncing' /\ syncStatus' = <<>>)]_vars
  /\ (isSyncing ~> ~isSyncing)

\* An error escaped a batch before its last candidate, and the flag is released.
C33_Witness ==
  /\ toast.type = "syncError"
  /\ ~isSyncing /\ syncStatus = <<>>
  /\ getPendingDocuments(masters) # <<>>
  /\ getFailedDocuments(masters) # <<>>

\* The candidates of the running batch stored with a status.
CandidatesStored(M, status) ==
  {m \in M : /\ m.syncStatus = status
             /\ \E i \in 1..Len(docsToSync) : docsToSync[i].id = m.id}

\* C34: the reported summary matches the persisted statuses.  On the step that
\* ends a batch with its summary, the number of the batch's candidates stored
\* as 'synced' is the reported success count and the number stored as 'failed'
\* is the reported failed count.
C34_SummaryMatchesStore ==
  [][(syncPc # "reload" /\ syncPc' = "reload") =>
       /\ toast'.type = "summary"
       /\ Cardinality(CandidatesStored(masters', "synced")) = toast'.success
       /\ Cardinality(CandidatesStored(masters', "failed")) = toast'.failed]_vars

\* The row a request commits when all its inserts are done.
WholeRow(r) == [id |-> r.n, tid |-> r.tid, metadata |-> r.metadata, atts |-> r.atts]

\* C35: the remote commit is all-or-nothing.  The committed rows change only
\* by the commit of one request that has inserted its master and every one of
\* its attachments, and then by that whole row; every other step of the
\* endpoint, a failure at any statement included, leaves the committed rows as
\* they are, so the rows an 'already exists' answer is given for are whole.
C35_CommitAllOrNothing ==
  [][remote' # remote =>
       \E r \in reqs : /\ r.stage = "commit"
                       /\ r.natts = Len(r.atts)
                       /\ r \notin reqs'
                       /\ remote' = remote \cup {WholeRow(r)}]_vars

\* A request has inserted its master and one of its two attachments and has
\* committed nothing; a later request for the same transactionId has passed the
\* idempotency check as a new record.
C35_Witness ==
  \E r, q \in reqs :
    /\ r.stage = "atts" /\ r.natts = 1 /\ Len(r.atts) = 2
    /\ q.tid = r.tid /\ q.n > r.n /\ q.stage = "master"
    /\ RowsOf(r.tid) = {}

\* The requests that are between getConnection and the end of the handler.
InProgress == {r \in reqs : r.stage \in {"master", "atts", "commit"}}

\* C38: the sync endpoint releases its connection on every exit path.  The open
\* connections are exactly those of the requests still in progress: a request
\* that was rejected with 400, answered 'already exists', committed or failed
\* holds none, and with no request in progress no connection is open; no step
\* that ends a request or rejects a body opens one.
C38_ConnectionsReleased ==
  /\ [](connections = {r.n : r \in InProgress})
  /\ [][Cardinality(InProgress') <= Cardinality(InProgress) =>
          Cardinality(connections') <= Cardinality(connections)]_vars

\* MaxFetches requests have ended, one of them with a commit, and no connection
\* is open.
C38_Witness ==
  /\ fetchCount = MaxFetches
  /\ reqs = {}
  /\ Cardinality(remote) = 1
  /\ connections = {}

\* The calls that have completed, the most recent one last.
CallsDone == SubSeq(qres.calls, 1, Len(qres.calls) - Len(qres.queued))

C37_MarkChangesStatusOnly ==
  [][/\ tx.op \in {"markSynced", "markFailed"} =>
          /\ details' = details
          /\ {m.id : m \in masters'} = {m.id : m \in masters}
          /\ \A m \in masters : \A x \in masters' :
               x.id = m.id =>
                 /\ [x EXCEPT !.syncStatus = m.syncStatus] = m
                 /\ m.id # tx.master.id => x = m
                 /\ (m.id = tx.master.id /\ tx.stage = "commit" /\ tx' = NoTx) =>
                      x.syncStatus = IF tx.op = "markSynced" THEN "synced"
                                     ELSE "failed"
     /\ tx.op = "update" =>
          \/ masters' = masters /\ details' = details
          \/ /\ tx.stage = "commit" /\ tx' = NoTx
             /\ {m \in masters' : m.id = tx.master.id} = {tx.master}
             /\ {d \in details' : d.masterId = tx.master.id} = Range(tx.dets)]_vars

\* A mark is about to complete on a record that was edited after the batch
\* listed it: the update ran first, the mark reads and keeps what it wrote.
C37_Witness ==
  /\ tx.op \in {"markSynced", "markFailed"} /\ tx.stage = "commit"
  /\ \E m \in masters :
       /\ m.id = tx.master.id
       /\ m.createdAt # docsToSync[idx].createdAt
       /\ tx.master.createdAt = m.createdAt
====
